---------------------------- MODULE Spec2Model ----------------------------
(***************************************************************************)
(* The image-generation chat bot of this repository: app.py (the Flask     *)
(* webhook service) and bot.py (the long-polling service).  Both hold the  *)
(* same three handlers: start, generate_image and quality_callback.        *)
(*                                                                         *)
(* Texts are TLA+ strings, handled with Len, SubSeq and \o the way the     *)
(* Python code handles str.  The module is ASCII, so each emoji of the     *)
(* source is written as its short name between colons (":art:").           *)
(*                                                                         *)
(* Environment: the provider call, the decoding of its response and the    *)
(* sending of the photo all sit inside the handler's try block and may     *)
(* raise; the model draws each outcome.  The other transport calls         *)
(* (answer, reply_text, delete) are recorded as issued.                    *)
(***************************************************************************)
EXTENDS Naturals, Sequences, FiniteSets, TLC

VARIABLES
    program,          \* which entry point runs: "app" (app.py) or "bot" (bot.py)
    telegram_token,   \* os.getenv('TELEGRAM_BOT_TOKEN'): <<>> when absent, <<t>> when set
    together_api_key, \* os.getenv('TOGETHER_API_KEY'):   <<>> when absent, <<k>> when set
    phase,            \* "startup", "running", "exited" (main returned), "crashed" (a constructor raised)
    quality_params,   \* the preset table
    user_data,        \* the prompt store: one dict per slot (see Slot)
    pc,               \* per user: where that user's handler invocation stands
    handler,          \* per user: the handler that invocation runs ("none" before the first)
    data,             \* quality_callback: query.data
    quality,          \* quality_callback: local quality
    prompt,           \* quality_callback: local prompt
    exc,              \* quality_callback: str(e) of the exception caught
    response,         \* quality_callback: response.data[0].b64_json
    out,              \* per user: the transport calls the invocation has issued, in order
    requests,         \* per user: the provider requests the invocation has issued, in order
    outcome,          \* per user: what the provider did: "none", "returned", "raised"
    lastMsg,          \* history: the last text message each user sent (<<>> if none)
    latest,           \* history: the last text message anyone sent (<<>> if none)
    seen,             \* history: per user, the text last stored in the slot when the selection read it
    prev              \* history: per user, the prompt of the request of the user's selection just before
                      \* this one, <<>> if there was none or a text was stored in the slot since

vars == <<program, telegram_token, together_api_key, phase, quality_params,
          user_data, pc, handler, data, quality, prompt, exc, response, out,
          requests, outcome, lastMsg, latest, seen, prev>>

-----------------------------------------------------------------------------
(* The inputs the model draws from. *)

Users == {"A", "B"}

\* update.message.text of a non-command text message
Texts == {"a red fox", "cat"}

\* query.data of a callback the pattern ^quality_ lets through
Tokens == {"quality_low", "quality_mid", "quality_high", "quality_ultra"}

\* str(e) of a failed provider call
ProviderErrors == {"timeout", "rate limit exceeded"}

\* response.data[0].b64_json of a provider call that returned:
\* "aW1n" decodes to b"img"; "aW1" is truncated base64
Payloads == {"aW1n", "aW1"}

\* str(e) of a failed reply_photo
SendError == "Timed out"

-----------------------------------------------------------------------------
(* Python's str operations. *)

\* sub in s
Contains(s, sub) ==
    \E i \in 1..(Len(s) + 1 - Len(sub)) : SubSeq(s, i, i + Len(sub) - 1) = sub

\* s.startswith(pre): re.match of a pattern "^pre"
StartsWith(s, pre) ==
    Len(pre) <= Len(s) /\ SubSeq(s, 1, Len(pre)) = pre

\* s.find(c) + 1 for a one-character c: 0 when c is not in s
Find(s, c) ==
    LET at == {i \in 1..Len(s) : SubSeq(s, i, i) = c} IN
    IF at = {} THEN 0 ELSE CHOOSE i \in at : \A j \in at : i <= j

RECURSIVE Split(_, _)
\* s.split(sep) for a one-character sep
Split(s, sep) ==
    LET i == Find(s, sep) IN
    IF i = 0 THEN <<s>>
    ELSE <<SubSeq(s, 1, i - 1)>> \o Split(SubSeq(s, i + 1, Len(s)), sep)

LowerCase == "abcdefghijklmnopqrstuvwxyz"
UpperCase == "ABCDEFGHIJKLMNOPQRSTUVWXYZ"

\* c.upper() for one character
Upper(c) ==
    LET i == Find(LowerCase, c) IN
    IF i = 0 THEN c ELSE SubSeq(UpperCase, i, i)

\* c.lower() for one character
Lower(c) ==
    LET i == Find(UpperCase, c) IN
    IF i = 0 THEN c ELSE SubSeq(LowerCase, i, i)

RECURSIVE LowerAll(_)
\* s.lower()
LowerAll(s) ==
    IF s = "" THEN ""
    ELSE Lower(SubSeq(s, 1, 1)) \o LowerAll(SubSeq(s, 2, Len(s)))

\* s.capitalize(): first character upper-cased, the rest lower-cased
Capitalize(s) ==
    IF s = "" THEN ""
    ELSE Upper(SubSeq(s, 1, 1)) \o LowerAll(SubSeq(s, 2, Len(s)))

-----------------------------------------------------------------------------
(* base64.b64decode *)

B64Alphabet == "ABCDEFGHIJKLMNOPQRSTUVWXYZabcdefghijklmnopqrstuvwxyz0123456789+/"

\* the 6-bit value of one base64 character
B64Value(c) == Find(B64Alphabet, c) - 1

RECURSIVE B64Bytes(_)
\* the bytes of a string of whole 4-character groups without padding
B64Bytes(s) ==
    IF s = "" THEN <<>>
    ELSE LET a == B64Value(SubSeq(s, 1, 1))
             b == B64Value(SubSeq(s, 2, 2))
             c == B64Value(SubSeq(s, 3, 3))
             d == B64Value(SubSeq(s, 4, 4))
         IN  << a * 4 + b \div 16,
                (b % 16) * 16 + c \div 4,
                (c % 4) * 64 + d >> \o B64Bytes(SubSeq(s, 5, Len(s)))

\* b64decode raises binascii.Error("Incorrect padding") unless the
\* characters come in whole groups of four
B64Valid(s) == Len(s) % 4 = 0

B64Decode(s) == B64Bytes(s)

B64Error == "Incorrect padding"

-----------------------------------------------------------------------------
(* Python's dict *)

EmptyDict == [k \in {} |-> ""]

\* d[k] = v
DictSet(d, k, v) == [x \in DOMAIN d \cup {k} |-> IF x = k THEN v ELSE d[x]]

\* d.get(k, default)
DictGet(d, k, default) == IF k \in DOMAIN d THEN d[k] ELSE default


-----------------------------------------------------------------------------
(* The data of the program. *)

\* quality_params as the module (app.py) and __init__ (bot.py) build it
QualityParams ==
    [ low  |-> [ model |-> "black-forest-labs/FLUX.1-dev", width |-> 512,
                 height |-> 384, steps |-> 20, n |-> 1,
                 response_format |-> "b64_json" ],
      mid  |-> [ model |-> "black-forest-labs/FLUX.1-dev", width |-> 768,
                 height |-> 576, steps |-> 24, n |-> 1,
                 response_format |-> "b64_json" ],
      high |-> [ model |-> "black-forest-labs/FLUX.1-dev", width |-> 1024,
                 height |-> 768, steps |-> 28, n |-> 1,
                 response_format |-> "b64_json" ] ]

\* Slot, had app.py keyed its store by user
UserSlot(u) == u

\* The dict a handler of user u keeps the prompt in.  app.py: the one
\* module-level user_data.  bot.py: context.user_data, which the framework
\* keeps per user.
Slot(u) == IF program = "app" THEN "module" ELSE u

Slots == {"module"} \cup Users

\* StorePrompt, had it been user_data.setdefault('current_prompt', text)
StorePromptOnce(d, text) ==
    IF "current_prompt" \in DOMAIN d THEN d ELSE DictSet(d, "current_prompt", text)

\* user_data['current_prompt'] = update.message.text
StorePrompt(d, text) == DictSet(d, "current_prompt", text)

\* user_data.get('current_prompt', 'A beautiful scene')
ReadPrompt(d) == DictGet(d, "current_prompt", "A beautiful scene")

\* InlineKeyboardButton(text, callback_data=...) / (text, url=...):
\* the attribute that is not given is None, written ""
CallbackButton(text, callback_data) ==
    [text |-> text, callback_data |-> callback_data, url |-> ""]

UrlButton(text, url) ==
    [text |-> text, callback_data |-> "", url |-> url]

\* One call to the transport.  kind: "answer" (query.answer), "text"
\* (send_message / reply_text), "photo" (reply_photo), "delete"
\* (loading_message.delete).  reply_markup is the keyboard, a sequence of
\* rows of buttons.  delivered: whether the call returned (TRUE) or raised.
Call(kind, text, parse_mode, reply_markup, photo, delivered) ==
    [kind |-> kind, text |-> text, parse_mode |-> parse_mode,
     reply_markup |-> reply_markup, photo |-> photo, delivered |-> delivered]

TextMessage(text, parse_mode, reply_markup) ==
    Call("text", text, parse_mode, reply_markup, <<>>, TRUE)

welcome_message ==
    ":art: *Welcome to AI Image Generator Bot!* :paintbrush:\n\n"
    \o "I can help you create stunning images using advanced AI technology. "
    \o "Simply send me a text prompt, and choose your desired image quality!\n\n"
    \o ":star2: Features:\n"
    \o "- Text-to-Image Generation\n"
    \o "- Multiple Quality Options\n"
    \o "- Easy Social Sharing\n\n"
    \o "Examples:\n"
    \o "- A futuristic cityscape at sunset\n"
    \o "- A cute robot playing chess\n"
    \o "- Underwater scene with bioluminescent creatures\n\n"
    \o "Get creative and let's generate some art! :rocket:"

\* quality_keyboard, had the medium button carried a token of its label
quality_keyboard_medium ==
    << << CallbackButton(":seedling: Low Quality (512x384)", "quality_low"),
          CallbackButton(":deciduous_tree: Medium Quality (768x576)", "quality_medium") >>,
       << CallbackButton(":evergreen_tree: High Quality (1024x768)", "quality_high") >> >>

quality_keyboard ==
    << << CallbackButton(":seedling: Low Quality (512x384)", "quality_low"),
          CallbackButton(":deciduous_tree: Medium Quality (768x576)", "quality_mid") >>,
       << CallbackButton(":evergreen_tree: High Quality (1024x768)", "quality_high") >> >>

\* the "generating" notice
loading_text(q) ==
    ":arrows_counterclockwise: Generating " \o Capitalize(q)
    \o " Quality Image... Please wait!"

twitter_url(p) ==
    "https://twitter.com/intent/tweet?text=Check%20out%20this%20AI-generated%20image!%20Created%20with%20@AIImageBot%20-%20Prompt:%20"
    \o p

linkedin_url(p) ==
    "https://www.linkedin.com/sharing/share-offsite/?url=&text=Check%20out%20this%20AI-generated%20image!%20Created%20with%20AI%20Image%20Generator%20-%20Prompt:%20"
    \o p

share_keyboard(p) ==
    << << UrlButton(":bird: Share on Twitter", twitter_url(p)),
          UrlButton(":briefcase: Share on LinkedIn", linkedin_url(p)) >> >>

caption(q, p) ==
    ":frame_with_picture: " \o Capitalize(q) \o " Quality Image\nPrompt: *"
    \o p \o "*"

\* error_message, had it left str(e) out
error_message_generic(e) ==
    ":x: Oops! Something went wrong during image generation.\n"
    \o "Please try again with a different prompt."

error_message(e) ==
    ":x: Oops! Something went wrong during image generation.\n"
    \o "Error: " \o e \o "\n\n"
    \o "Please try again with a different prompt."

\* str(KeyError(k)) for a str k
KeyErrorText(k) == "'" \o k \o "'"

\* Request, had the handler always passed the low preset
RequestLow(p, params) == [prompt |-> p] @@ QualityParams.low

\* together_client.images.generate(prompt=prompt, **quality_params[quality])
Request(p, params) == [prompt |-> p] @@ params

-----------------------------------------------------------------------------
(* The state after the interpreter has loaded the program and before its   *)
(* startup code has run: any of the two entry points, each credential set  *)
(* in the environment or not.                                              *)

Init ==
    /\ program \in {"app", "bot"}
    /\ telegram_token \in {<<>>, <<"123:abc">>}
    /\ together_api_key \in {<<>>, <<"key">>}
    /\ phase = "startup"
    /\ quality_params = QualityParams
    /\ user_data = [s \in Slots |-> EmptyDict]
    /\ pc = [u \in Users |-> "idle"]
    /\ handler = [u \in Users |-> "none"]
    /\ data = [u \in Users |-> ""]
    /\ quality = [u \in Users |-> ""]
    /\ prompt = [u \in Users |-> ""]
    /\ exc = [u \in Users |-> ""]
    /\ response = [u \in Users |-> ""]
    /\ out = [u \in Users |-> <<>>]
    /\ requests = [u \in Users |-> <<>>]
    /\ outcome = [u \in Users |-> "none"]
    /\ lastMsg = [u \in Users |-> <<>>]
    /\ latest = <<>>
    /\ seen = [u \in Users |-> <<>>]
    /\ prev = [u \in Users |-> <<>>]

\* a handler invocation starts with fresh locals
FreshLocals(u) ==
    /\ data' = [data EXCEPT ![u] = ""]
    /\ quality' = [quality EXCEPT ![u] = ""]
    /\ prompt' = [prompt EXCEPT ![u] = ""]
    /\ exc' = [exc EXCEPT ![u] = ""]
    /\ response' = [response EXCEPT ![u] = ""]
    /\ requests' = [requests EXCEPT ![u] = <<>>]
    /\ outcome' = [outcome EXCEPT ![u] = "none"]
    /\ seen' = [seen EXCEPT ![u] = <<>>]
    /\ prev' = [prev EXCEPT ![u] = <<>>]

-----------------------------------------------------------------------------
(* Startup *)

\* bot.py main(): "if not telegram_token or not together_api_key" logs the
\* error and returns; otherwise the application is built, the handlers are
\* registered and polling starts.
CredentialsMissing == telegram_token = <<>> \/ together_api_key = <<>>

\* BotMain, had main gone on without validating the credentials
BotMainUnchecked ==
    /\ program = "bot"
    /\ phase = "startup"
    /\ phase' = "running"
    /\ UNCHANGED <<program, telegram_token, together_api_key, quality_params,
                   user_data, pc, handler, data, quality, prompt, exc,
                   response, out, requests, outcome, lastMsg, latest, seen,
                   prev>>

BotMain ==
    /\ program = "bot"
    /\ phase = "startup"
    /\ phase' = IF CredentialsMissing THEN "exited" ELSE "running"
    /\ UNCHANGED <<program, telegram_token, together_api_key, quality_params,
                   user_data, pc, handler, data, quality, prompt, exc,
                   response, out, requests, outcome, lastMsg, latest, seen,
                   prev>>

\* app.py, module level: the values os.getenv returned go to Together(...)
\* and Bot(...) unexamined; app.py makes no check of its own.  Both client
\* constructors reject a missing credential by raising, which ends the
\* import before Flask serves /webhook.  With both credentials set the app
\* serves, and every request to /webhook registers the three handlers and
\* processes the update.
AppStartup ==
    /\ program = "app"
    /\ phase = "startup"
    /\ phase' = IF CredentialsMissing THEN "crashed" ELSE "running"
    /\ UNCHANGED <<program, telegram_token, together_api_key, quality_params,
                   user_data, pc, handler, data, quality, prompt, exc,
                   response, out, requests, outcome, lastMsg, latest, seen,
                   prev>>

-----------------------------------------------------------------------------
(* The handlers.  The dispatcher hands "/start" to start, a non-command    *)
(* text to generate_image and a callback whose data matches ^quality_ to   *)
(* quality_callback.                                                       *)

\* Start, had the text handler's filter let the command through: "/start"
\* is stored as the prompt
StartStoresCommand(u) ==
    /\ phase = "running"
    /\ pc[u] = "idle"
    /\ handler' = [handler EXCEPT ![u] = "start"]
    /\ user_data' = [user_data EXCEPT ![Slot(u)] = DictSet(@, "current_prompt", "/start")]
    /\ out' = [out EXCEPT ![u] = << TextMessage(welcome_message, "Markdown", <<>>) >>]
    /\ FreshLocals(u)
    /\ UNCHANGED <<program, telegram_token, together_api_key, phase,
                   quality_params, pc, lastMsg, latest>>

\* start(update, context)
Start(u) ==
    /\ phase = "running"
    /\ pc[u] = "idle"
    /\ handler' = [handler EXCEPT ![u] = "start"]
    /\ out' = [out EXCEPT ![u] = << TextMessage(welcome_message, "Markdown", <<>>) >>]
    /\ FreshLocals(u)
    /\ UNCHANGED <<program, telegram_token, together_api_key, phase,
                   quality_params, user_data, pc, lastMsg, latest>>

\* generate_image(update, context), update.message.text = text
GenerateImage(u, text) ==
    /\ phase = "running"
    /\ pc[u] = "idle"
    /\ handler' = [handler EXCEPT ![u] = "text"]
    /\ user_data' = [user_data EXCEPT ![Slot(u)] = StorePrompt(@, text)]
    /\ out' = [out EXCEPT ![u] =
          << TextMessage("Select image quality for your prompt:", "", quality_keyboard) >>]
    /\ lastMsg' = [lastMsg EXCEPT ![u] = <<text>>]
    /\ latest' = <<text>>
    /\ FreshLocals(u)
    /\ UNCHANGED <<program, telegram_token, together_api_key, phase,
                   quality_params, pc>>

\* quality = query.data.split('_')[1], tabulated over the callback data
QualityOf == [d \in Tokens |-> Split(d, "_")[2]]

\* loading_message = query.message.reply_text(...), tabulated likewise
loading_message ==
    [d \in Tokens |-> TextMessage(loading_text(QualityOf[d]), "", <<>>)]

\* quality_callback(update, context), up to the try block: answers the
\* query, takes the quality out of query.data, reads the prompt and sends
\* the "generating" notice.
QualityBegin(u, d) ==
    /\ phase = "running"
    /\ pc[u] = "idle"
    /\ StartsWith(d, "quality_")
    /\ handler' = [handler EXCEPT ![u] = "callback"]
    /\ data' = [data EXCEPT ![u] = d]
    /\ quality' = [quality EXCEPT ![u] = QualityOf[d]]
    /\ prompt' = [prompt EXCEPT ![u] = ReadPrompt(user_data[Slot(u)])]
    /\ seen' = [seen EXCEPT ![u] = IF program = "app" THEN latest ELSE lastMsg[u]]
    /\ prev' = [prev EXCEPT ![u] =
          IF /\ handler[u] = "callback"
             /\ requests[u] # <<>>
             /\ seen[u] = (IF program = "app" THEN latest ELSE lastMsg[u])
          THEN <<requests[u][1].prompt>>
          ELSE <<>>]
    /\ out' = [out EXCEPT ![u] =
          << Call("answer", "", "", <<>>, <<>>, TRUE),
             loading_message[d] >>]
    /\ exc' = [exc EXCEPT ![u] = ""]
    /\ response' = [response EXCEPT ![u] = ""]
    /\ requests' = [requests EXCEPT ![u] = <<>>]
    /\ outcome' = [outcome EXCEPT ![u] = "none"]
    /\ pc' = [pc EXCEPT ![u] = "try"]
    /\ UNCHANGED <<program, telegram_token, together_api_key, phase,
                   quality_params, user_data, lastMsg, latest>>

\* QualityGenerate, had the preset been looked up before the try block:
\* the KeyError leaves the handler uncaught
QualityGenerateUncaught(u) ==
    /\ pc[u] = "try"
    /\ IF quality[u] \notin DOMAIN quality_params
       THEN /\ exc' = [exc EXCEPT ![u] = KeyErrorText(quality[u])]
            /\ pc' = [pc EXCEPT ![u] = "idle"]
            /\ UNCHANGED <<requests, outcome, response>>
       ELSE /\ requests' = [requests EXCEPT ![u] =
                  Append(@, Request(prompt[u], quality_params[quality[u]]))]
            /\ \/ \E e \in ProviderErrors :
                     /\ outcome' = [outcome EXCEPT ![u] = "raised"]
                     /\ exc' = [exc EXCEPT ![u] = e]
                     /\ pc' = [pc EXCEPT ![u] = "except"]
                     /\ UNCHANGED response
               \/ \E b \in Payloads :
                     /\ outcome' = [outcome EXCEPT ![u] = "returned"]
                     /\ response' = [response EXCEPT ![u] = b]
                     /\ pc' = [pc EXCEPT ![u] = "send"]
                     /\ UNCHANGED exc
    /\ UNCHANGED <<program, telegram_token, together_api_key, phase,
                   quality_params, user_data, handler, data, quality, prompt,
                   out, lastMsg, latest, seen,
                   prev>>

\* try: together_client.images.generate(prompt=prompt, **quality_params[quality]).
\* The lookup raises KeyError before any request is made; the request
\* either raises or returns a response.
QualityGenerate(u) ==
    /\ pc[u] = "try"
    /\ IF quality[u] \notin DOMAIN quality_params
       THEN /\ exc' = [exc EXCEPT ![u] = KeyErrorText(quality[u])]
            /\ pc' = [pc EXCEPT ![u] = "except"]
            /\ UNCHANGED <<requests, outcome, response>>
       ELSE /\ requests' = [requests EXCEPT ![u] =
                  Append(@, Request(prompt[u], quality_params[quality[u]]))]
            /\ \/ \E e \in ProviderErrors :
                     /\ outcome' = [outcome EXCEPT ![u] = "raised"]
                     /\ exc' = [exc EXCEPT ![u] = e]
                     /\ pc' = [pc EXCEPT ![u] = "except"]
                     /\ UNCHANGED response
               \/ \E b \in Payloads :
                     /\ outcome' = [outcome EXCEPT ![u] = "returned"]
                     /\ response' = [response EXCEPT ![u] = b]
                     /\ pc' = [pc EXCEPT ![u] = "send"]
                     /\ UNCHANGED exc
    /\ UNCHANGED <<program, telegram_token, together_api_key, phase,
                   quality_params, user_data, handler, data, quality, prompt,
                   out, lastMsg, latest, seen,
                   prev>>

\* QualitySend, had the notice been deleted before the photo is sent
QualitySendAfterDelete(u) ==
    /\ pc[u] = "send"
    /\ IF ~B64Valid(response[u])
       THEN /\ exc' = [exc EXCEPT ![u] = B64Error]
            /\ pc' = [pc EXCEPT ![u] = "except"]
            /\ UNCHANGED out
       ELSE \E delivered \in BOOLEAN :
            /\ out' = [out EXCEPT ![u] = Append(Append(@,
                  Call("delete", loading_text(quality[u]), "", <<>>, <<>>, TRUE)),
                  Call("photo", caption(quality[u], prompt[u]), "Markdown",
                       share_keyboard(prompt[u]), B64Decode(response[u]),
                       delivered))]
            /\ exc' = [exc EXCEPT ![u] = IF delivered THEN @ ELSE SendError]
            /\ pc' = [pc EXCEPT ![u] = IF delivered THEN "finally" ELSE "except"]
    /\ UNCHANGED <<program, telegram_token, together_api_key, phase,
                   quality_params, user_data, handler, data, quality, prompt,
                   response, requests, outcome, lastMsg, latest, seen,
                   prev>>

\* try, continued: decodes the image, builds the sharing keyboard and sends
\* the photo.  b64decode may raise; reply_photo may raise.
QualitySend(u) ==
    /\ pc[u] = "send"
    /\ IF ~B64Valid(response[u])
       THEN /\ exc' = [exc EXCEPT ![u] = B64Error]
            /\ pc' = [pc EXCEPT ![u] = "except"]
            /\ UNCHANGED out
       ELSE \E delivered \in BOOLEAN :
            /\ out' = [out EXCEPT ![u] = Append(@,
                  Call("photo", caption(quality[u], prompt[u]), "Markdown",
                       share_keyboard(prompt[u]), B64Decode(response[u]),
                       delivered))]
            /\ exc' = [exc EXCEPT ![u] = IF delivered THEN @ ELSE SendError]
            /\ pc' = [pc EXCEPT ![u] = IF delivered THEN "finally" ELSE "except"]
    /\ UNCHANGED <<program, telegram_token, together_api_key, phase,
                   quality_params, user_data, handler, data, quality, prompt,
                   response, requests, outcome, lastMsg, latest, seen,
                   prev>>

\* QualityExcept, had a failed request been made a second time
QualityExceptRetry(u) ==
    /\ pc[u] = "except"
    /\ out' = [out EXCEPT ![u] = Append(@, TextMessage(error_message(exc[u]), "", <<>>))]
    /\ requests' = [requests EXCEPT ![u] =
          IF outcome[u] = "raised" THEN Append(@, @[1]) ELSE @]
    /\ pc' = [pc EXCEPT ![u] = "finally"]
    /\ UNCHANGED <<program, telegram_token, together_api_key, phase,
                   quality_params, user_data, handler, data, quality, prompt,
                   exc, response, outcome, lastMsg, latest, seen,
                   prev>>

\* except Exception as e: query.message.reply_text(error_message)
QualityExcept(u) ==
    /\ pc[u] = "except"
    /\ out' = [out EXCEPT ![u] = Append(@, TextMessage(error_message(exc[u]), "", <<>>))]
    /\ pc' = [pc EXCEPT ![u] = "finally"]
    /\ UNCHANGED <<program, telegram_token, together_api_key, phase,
                   quality_params, user_data, handler, data, quality, prompt,
                   exc, response, requests, outcome, lastMsg, latest, seen,
                   prev>>

\* QualityFinally, had the handler dropped the prompt once it is done
QualityFinallyClears(u) ==
    /\ pc[u] = "finally"
    /\ out' = [out EXCEPT ![u] = Append(@,
          Call("delete", loading_text(quality[u]), "", <<>>, <<>>, TRUE))]
    /\ user_data' = [user_data EXCEPT ![Slot(u)] = EmptyDict]
    /\ pc' = [pc EXCEPT ![u] = "idle"]
    /\ UNCHANGED <<program, telegram_token, together_api_key, phase,
                   quality_params, handler, data, quality, prompt,
                   exc, response, requests, outcome, lastMsg, latest, seen,
                   prev>>

\* QualityFinally, had the deletion been the last statement of the try
\* block instead: it is skipped when an exception was caught
QualityFinallyOnSuccess(u) ==
    /\ pc[u] = "finally"
    /\ out' = [out EXCEPT ![u] =
          IF exc[u] = ""
          THEN Append(@, Call("delete", loading_text(quality[u]), "", <<>>, <<>>, TRUE))
          ELSE @]
    /\ pc' = [pc EXCEPT ![u] = "idle"]
    /\ UNCHANGED <<program, telegram_token, together_api_key, phase,
                   quality_params, user_data, handler, data, quality, prompt,
                   exc, response, requests, outcome, lastMsg, latest, seen,
                   prev>>

\* finally: loading_message.delete()
QualityFinally(u) ==
    /\ pc[u] = "finally"
    /\ out' = [out EXCEPT ![u] = Append(@,
          Call("delete", loading_text(quality[u]), "", <<>>, <<>>, TRUE))]
    /\ pc' = [pc EXCEPT ![u] = "idle"]
    /\ UNCHANGED <<program, telegram_token, together_api_key, phase,
                   quality_params, user_data, handler, data, quality, prompt,
                   exc, response, requests, outcome, lastMsg, latest, seen,
                   prev>>

-----------------------------------------------------------------------------

Next ==
    \/ BotMain
    \/ AppStartup
    \/ \E u \in Users : Start(u)
    \/ \E u \in Users : \E text \in Texts : GenerateImage(u, text)
    \/ \E u \in Users : \E d \in Tokens : QualityBegin(u, d)
    \/ \E u \in Users : QualityGenerate(u)
    \/ \E u \in Users : QualitySend(u)
    \/ \E u \in Users : QualityExcept(u)
    \/ \E u \in Users : QualityFinally(u)

Spec == Init /\ [][Next]_vars

\* The inputs of the fair specification: one prompt, one token the presets
\* know and one they do not.
LiveTexts == {"cat"}
LiveTokens == {"quality_mid", "quality_ultra"}

\* Next over these inputs
FairNext ==
    \/ BotMain
    \/ AppStartup
    \/ \E u \in Users : Start(u)
    \/ \E u \in Users : \E text \in LiveTexts : GenerateImage(u, text)
    \/ \E u \in Users : \E d \in LiveTokens : QualityBegin(u, d)
    \/ \E u \in Users : QualityGenerate(u)
    \/ \E u \in Users : QualitySend(u)
    \/ \E u \in Users : QualityExcept(u)
    \/ \E u \in Users : QualityFinally(u)

\* The program under the scheduling the code gives its handler.
\* The handler is straight-line code: once the provider call has returned
\* or raised, the statements after it run one after the other, each to its
\* end.  Nothing is assumed of the provider call itself, which may never
\* return, nor of the users, who may never send anything.
FairSpec ==
    /\ Init
    /\ [][FairNext]_vars
    /\ \A u \in Users :
          /\ WF_vars(QualitySend(u))
          /\ WF_vars(QualityExcept(u))
          /\ WF_vars(QualityFinally(u))

-----------------------------------------------------------------------------
(* Vocabulary of the properties. *)

DefaultPrompt == "A beautiful scene"

\* the text last stored, as a selection would be handed it
Expected(stored) == IF stored = <<>> THEN DefaultPrompt ELSE stored[1]

\* user u's quality selection has run to its end
Completed(u) == handler[u] = "callback" /\ pc[u] = "idle"

IsPhoto(c) == c.kind = "photo"

IsErrorText(c) == c.kind = "text" /\ StartsWith(c.text, ":x: Oops!")

IsDelete(c) == c.kind = "delete"

\* the result message of a selection: the image or the error text
IsResult(c) == IsPhoto(c) \/ IsErrorText(c)

\* the positions in u's calls that satisfy P
Where(u, P(_)) == {i \in 1..Len(out[u]) : P(out[u][i])}

\* the urls of the buttons of a call's keyboard
Urls(c) ==
    UNION { {c.reply_markup[r][k].url : k \in 1..Len(c.reply_markup[r])} :
               r \in 1..Len(c.reply_markup) }

\* percent-encoding of one character: letters, digits and -_.~ stand for
\* themselves
Unreserved ==
    "abcdefghijklmnopqrstuvwxyzABCDEFGHIJKLMNOPQRSTUVWXYZ0123456789-_.~"

QuoteChar(c) ==
    IF Find(Unreserved, c) # 0 THEN c
    ELSE IF c = " " THEN "%20"
    ELSE IF c = "&" THEN "%26"
    ELSE IF c = "#" THEN "%23"
    ELSE IF c = "*" THEN "%2A"
    ELSE "%3F"

RECURSIVE UrlQuote(_)
\* the URL-encoded form of s
UrlQuote(s) ==
    IF s = "" THEN ""
    ELSE QuoteChar(SubSeq(s, 1, 1)) \o UrlQuote(SubSeq(s, 2, Len(s)))

-----------------------------------------------------------------------------
(* C1.  Every provider request of a quality selection carries the text     *)
(* that was stored last when the selection read the store, and the         *)
(* placeholder 'A beautiful scene' if no text had been stored: last write  *)
(* wins.                                                                   *)
C1_PromptIsLastStored ==
    \A u \in Users : \A i \in 1..Len(requests[u]) :
        requests[u][i].prompt = Expected(seen[u])

\* one selection went to the provider with the placeholder, nothing having
\* been stored when it read, and another with the text "cat" stored since
C1_Witness ==
    \E u, v \in Users :
        /\ requests[u] # <<>> /\ seen[u] = <<>>
        /\ requests[u][1].prompt = "A beautiful scene"
        /\ requests[v] # <<>> /\ seen[v] = <<"cat">>
        /\ requests[v][1].prompt = "cat"

C3_ProviderFailure ==
    \A u \in Users :
        (handler[u] = "callback" /\ outcome[u] = "raised") =>
            /\ exc[u] \in ProviderErrors
            /\ Where(u, IsPhoto) = {}
            /\ Cardinality(Where(u, IsErrorText)) <= 1
            /\ pc[u] = "idle" =>
                  /\ Cardinality(Where(u, IsErrorText)) = 1
                  /\ \A i \in Where(u, IsErrorText) :
                        Contains(out[u][i].text, exc[u])

\* a selection whose provider call raised "timeout" has run to its end
C3_Witness ==
    \E u \in Users :
        /\ Completed(u) /\ outcome[u] = "raised" /\ exc[u] = "timeout"
        /\ \E i \in Where(u, IsErrorText) : Contains(out[u][i].text, "timeout")

(* C4.  When the provider call succeeds, the selection for quality_mid     *)
(* sends exactly one image, whose caption contains "Medium Quality Image"  *)
(* and the prompt.                                                         *)
C4_MediumCaption ==
    \A u \in Users :
        (Completed(u) /\ data[u] = "quality_mid" /\ outcome[u] = "returned"
                      /\ B64Valid(response[u])) =>
            /\ Cardinality(Where(u, IsPhoto)) = 1
            /\ \A i \in Where(u, IsPhoto) :
                  /\ Contains(out[u][i].text, "Medium Quality Image")
                  /\ Contains(out[u][i].text, prompt[u])

(* C5.  Both sharing links of every image sent embed the prompt            *)
(* URL-encoded: the encoded prompt is in the link and no raw space is.     *)
C5_LinksEncoded ==
    \A u \in Users : \A i \in Where(u, IsPhoto) :
        /\ Cardinality(Urls(out[u][i])) = 2
        /\ \A url \in Urls(out[u][i]) :
              /\ Contains(url, UrlQuote(prompt[u]))
              /\ ~Contains(url, " ")

(* C6.  A step in which a user's start handler runs leaves the prompt      *)
(* store as it was and sends the welcome message and nothing else.         *)
C6_StartKeepsPrompt ==
    [][\A u \in Users :
          (handler[u] # "start" /\ handler'[u] = "start") =>
              /\ user_data' = user_data
              /\ Len(out'[u]) = 1
              /\ out'[u][1].kind = "text"
              /\ StartsWith(out'[u][1].text, ":art: *Welcome")]_vars

\* start has run for a user whose text message is still the stored prompt
C6_Witness ==
    \E u \in Users :
        /\ handler[u] = "start"
        /\ lastMsg[u] # <<>>
        /\ ReadPrompt(user_data[Slot(u)]) = lastMsg[u][1]

(* C7.  The request of a selection carries width, height and steps         *)
(* 512/384/20 for quality_low, 768/576/24 for quality_mid and 1024/768/28  *)
(* for quality_high, each with n = 1, and the preset table never changes.  *)
C7_Presets ==
    /\ DOMAIN quality_params = {"low", "mid", "high"}
    /\ \A q \in DOMAIN quality_params : quality_params[q].n = 1
    /\ <<quality_params.low.width, quality_params.low.height,
         quality_params.low.steps>> = <<512, 384, 20>>
    /\ <<quality_params.mid.width, quality_params.mid.height,
         quality_params.mid.steps>> = <<768, 576, 24>>
    /\ <<quality_params.high.width, quality_params.high.height,
         quality_params.high.steps>> = <<1024, 768, 28>>
    /\ \A u \in Users : \A i \in 1..Len(requests[u]) :
          LET r == requests[u][i]
              sent == <<r.width, r.height, r.steps, r.n>>
          IN  /\ data[u] \in {"quality_low", "quality_mid", "quality_high"}
              /\ data[u] = "quality_low" => sent = <<512, 384, 20, 1>>
              /\ data[u] = "quality_mid" => sent = <<768, 576, 24, 1>>
              /\ data[u] = "quality_high" => sent = <<1024, 768, 28, 1>>

\* two selections in flight, one of quality_mid and one of quality_high,
\* each with its request made
C7_Witness ==
    \E u, v \in Users :
        /\ data[u] = "quality_mid" /\ requests[u] # <<>>
        /\ requests[u][1].width = 768
        /\ data[v] = "quality_high" /\ requests[v] # <<>>
        /\ requests[v][1].steps = 28

C9_DeleteBeforeResult ==
    \A u \in Users : \A j \in Where(u, IsResult) :
        \E i \in Where(u, IsDelete) : i < j

(* C9, amended.  The "generating" notice is deleted after the result       *)
(* message is sent: the deletion is the last call of the selection, and    *)
(* the image send or the error text message precedes it.                   *)
C9_ResultBeforeDelete ==
    \A u \in Users : \A i \in Where(u, IsDelete) :
        /\ i = Len(out[u])
        /\ \E j \in Where(u, IsResult) : j < i

\* a selection has sent its image and then deleted the notice
C9_Witness ==
    \E u \in Users :
        /\ Completed(u)
        /\ \E j \in Where(u, IsPhoto) : out[u][j].delivered /\ j + 1 = Len(out[u])
        /\ IsDelete(out[u][Len(out[u])])

(* C10.  When a selection ends, whatever the outcome, no prompt is pending *)
(* any more: the store the selection read holds no prompt.                 *)
C10_BackToIdle ==
    [][\A u \in Users :
          (pc[u] = "finally" /\ pc'[u] = "idle") =>
              "current_prompt" \notin DOMAIN user_data'[Slot(u)]]_vars

(* C11.  A quality selection makes at most one provider request, and     *)
(* exactly one, once past the lookup, when its token is one of the three   *)
(* known ones; a request that raised is not made again; a start command or *)
(* a text message makes no request.                                        *)
C11_OneRequest ==
    \A u \in Users :
        /\ Len(requests[u]) <= 1
        /\ handler[u] \in {"none", "start", "text"} => requests[u] = <<>>
        /\ (handler[u] = "callback" /\ pc[u] # "try"
               /\ data[u] \in {"quality_low", "quality_mid", "quality_high"})
              => Len(requests[u]) = 1
        /\ (handler[u] = "callback" /\ outcome[u] = "raised")
              => Len(requests[u]) = 1

\* one user's selection has run to its end after its one request raised,
\* while the other user's text message made no request
C11_Witness ==
    \E u, v \in Users :
        /\ Completed(u) /\ outcome[u] = "raised" /\ Len(requests[u]) = 1
        /\ Where(u, IsErrorText) # {}
        /\ handler[v] = "text" /\ requests[v] = <<>>

\* the callback tokens a call's keyboard offers, one per button
Offered(c) ==
    UNION { {<<r, k, c.reply_markup[r][k].callback_data>> :
                k \in 1..Len(c.reply_markup[r])} :
               r \in 1..Len(c.reply_markup) }

\* what a store holds after the text stored last (none: nothing)
Holding(stored) ==
    IF stored = <<>> THEN EmptyDict ELSE [k \in {"current_prompt"} |-> stored[1]]

(* C12.  A text message t leaves t as the stored prompt, whatever was      *)
(* stored before, and sends exactly one message: the quality menu, whose   *)
(* three buttons carry quality_low, quality_mid and quality_high; it sends *)
(* no image and no error message.                                          *)
C12_TextStoresAndOffersMenu ==
    /\ program = "app" => user_data["module"] = Holding(latest)
    /\ program = "bot" => \A u \in Users : user_data[u] = Holding(lastMsg[u])
    /\ \A u \in Users :
          handler[u] = "text" =>
              /\ lastMsg[u] # <<>>
              /\ Len(out[u]) = 1
              /\ out[u][1].kind = "text"
              /\ ~IsErrorText(out[u][1])
              /\ Cardinality(Offered(out[u][1])) = 3
              /\ {t[3] : t \in Offered(out[u][1])} =
                    {"quality_low", "quality_mid", "quality_high"}

\* B's text message "cat" has replaced A's "a red fox" in app.py's store
\* and B has been sent the menu
C12_Witness ==
    /\ program = "app"
    /\ lastMsg["A"] = <<"a red fox">>
    /\ lastMsg["B"] = <<"cat">>
    /\ handler["B"] = "text"
    /\ user_data["module"]["current_prompt"] = "cat"
    /\ Len(out["B"]) = 1

(* C13.  A callback for quality_ultra makes no provider request and sends  *)
(* no image; the failed preset lookup is caught, so the selection runs to  *)
(* its end having sent exactly one error text message, which names the     *)
(* missing key, and having deleted the notice as its last call.            *)
C13_UnknownToken ==
    \A u \in Users :
        (handler[u] = "callback" /\ data[u] = "quality_ultra") =>
            /\ requests[u] = <<>>
            /\ outcome[u] = "none"
            /\ Where(u, IsPhoto) = {}
            /\ pc[u] \in {"try", "except", "finally", "idle"}
            /\ pc[u] = "idle" =>
                  /\ Cardinality(Where(u, IsErrorText)) = 1
                  /\ \A i \in Where(u, IsErrorText) :
                        Contains(out[u][i].text, "Error: 'ultra'")
                  /\ Where(u, IsDelete) = {Len(out[u])}
                  /\ out[u][Len(out[u])].text = out[u][2].text

\* a selection of quality_ultra has run to its end
C13_Witness ==
    \E u \in Users :
        /\ Completed(u) /\ data[u] = "quality_ultra"
        /\ Where(u, IsErrorText) # {}
        /\ IsDelete(out[u][Len(out[u])])

(* C14.  No step of a quality selection changes the prompt store, and a   *)
(* selection that follows another selection of the same user with no text  *)
(* stored in between sends the provider the same prompt as that one did:   *)
(* the text stored last.                                                   *)
C14_SelectionKeepsPrompt ==
    /\ [][pc' # pc => user_data' = user_data]_vars
    /\ [](\A u \in Users :
            prev[u] # <<>> =>
                /\ prompt[u] = prev[u][1]
                /\ prev[u][1] = Expected(seen[u])
                /\ ReadPrompt(user_data[Slot(u)]) = Expected(
                      IF program = "app" THEN latest ELSE lastMsg[u])
                /\ \A i \in 1..Len(requests[u]) :
                      requests[u][i].prompt = prev[u][1])

\* a user's second selection in a row has made its request, with "cat" as
\* the first did, and has run to its end with "cat" still stored
C14_Witness ==
    \E u \in Users :
        /\ Completed(u)
        /\ prev[u] = <<"cat">>
        /\ Len(requests[u]) = 1
        /\ requests[u][1].prompt = "cat"
        /\ user_data[Slot(u)] = Holding(<<"cat">>)

\* the provider call of u's selection has returned or raised
ProviderAnswered(u) ==
    handler[u] = "callback" /\ pc[u] \in {"send", "except", "finally"}

\* the last call of u's selection deletes the "generating" notice it sent
NoticeDeleted(u) ==
    /\ Completed(u)
    /\ IsDelete(out[u][Len(out[u])])
    /\ out[u][Len(out[u])].text = out[u][2].text
    /\ Cardinality(Where(u, IsDelete)) = 1

\* the photo calls of u's selection that did not go through
FailedPhotos(u) ==
    {i \in Where(u, IsPhoto) : ~out[u][i].delivered}

(* C15.  Once the provider call of a selection has returned or raised,    *)
(* the selection ends with the deletion of its "generating" notice, on     *)
(* every path.  Where the image was generated but sending it failed, an    *)
(* error text carrying the failure follows the failed send and no image    *)
(* is delivered.                                                           *)
C15_NoticeEventuallyDeleted ==
    /\ \A u \in Users : ProviderAnswered(u) ~> NoticeDeleted(u)
    /\ [](\A u \in Users : Completed(u) => NoticeDeleted(u))
    /\ [](\A u \in Users :
            (Completed(u) /\ FailedPhotos(u) # {}) =>
                /\ outcome[u] = "returned"
                /\ \A i \in Where(u, IsPhoto) : ~out[u][i].delivered
                /\ \E j \in Where(u, IsErrorText) :
                      /\ \A i \in FailedPhotos(u) : i < j
                      /\ Contains(out[u][j].text, SendError))

\* an image was generated, sending it failed, the error text went out and
\* the notice was deleted last
C15_Witness ==
    \E u \in Users :
        /\ NoticeDeleted(u)
        /\ outcome[u] = "returned"
        /\ FailedPhotos(u) # {}
        /\ Where(u, IsErrorText) # {}

=============================================================================
